---- MODULE Spec2Model ----
(***************************************************************************)
(* A model of search-in-js: the recursive scanner (search-recursively.js)  *)
(* and the multi-pattern report pipeline (performSearch and its helpers).  *)
(*                                                                         *)
(* A JavaScript string is a sequence of one-character strings, so that     *)
(* escaping, trimming, case folding, splitting and regular-expression      *)
(* matching are computed character by character, as the code does.         *)
(***************************************************************************)
EXTENDS Integers, Sequences, FiniteSets, TLC

VARIABLES
    call,            \* the pure-function specifications: name of the function applied
    input,           \* its arguments
    output,          \* its result ("pending" before the call)
    name,            \* file system: node -> entry name
    fails,           \* file system: the set of operations <<op, node>> that throw
    content,         \* file system: file node -> text
    directories,     \* config.directories (start nodes)
    patterns,        \* config.patterns
    excludeDirs,     \* config.excludeDirs
    includeFiles,    \* config.fileTypes / options.includeFiles
    pc,              \* position in performSearch / searchRecursively
    di,              \* index of the current directory in the scan loop
    pi,              \* index of the current pattern in the scan loop
    stack,           \* traverseDirectory's activation records
    results,         \* searchRecursively's results array
    listed,          \* directories whose entries readdirSync has returned or been asked for
    scanned,         \* files handed to searchInFile
    readFiles,       \* files handed to readFileSync
    allResults,      \* performSearch's allResults array
    scanPass,        \* for each element of allResults, the pattern index that produced it
    groupedResults,  \* the Map built by groupResultsByPattern, in insertion order
    report,          \* formatSimpleResults' text
    fsLog            \* the mutating file-system operations performed, in order

vars == <<call, input, output, name, fails, content, directories, patterns,
          excludeDirs, includeFiles, pc, di, pi, stack, results, listed, scanned,
          readFiles, allResults, scanPass, groupedResults, report, fsLog>>

pureVars == <<call, input, output>>
fsVars == <<name, fails, content>>
configVars == <<directories, patterns, excludeDirs, includeFiles>>
walkVars == <<stack, results, listed, scanned, readFiles>>
pipeVars == <<pc, di, pi, allResults, scanPass, groupedResults, report, fsLog>>

(***************************************************************************)
(* Characters and strings                                                  *)
(***************************************************************************)
LowerLetters == <<"a", "c", "j", "m", "n", "r", "s", "t">>
UpperLetters == <<"A", "C", "J", "M", "N", "R", "S", "T">>

Range(f) == {f[i] : i \in DOMAIN f}

IsLower(c) == c \in Range(LowerLetters)
IsUpper(c) == c \in Range(UpperLetters)

LetterIndex(letters, c) == CHOOSE i \in DOMAIN letters : letters[i] = c

\* String.prototype.toLowerCase / toUpperCase, one character
toLowerCase(c) == IF IsUpper(c) THEN LowerLetters[LetterIndex(UpperLetters, c)] ELSE c
toUpperCase(c) == IF IsLower(c) THEN UpperLetters[LetterIndex(LowerLetters, c)] ELSE c

StrToLowerCase(s) == [i \in 1..Len(s) |-> toLowerCase(s[i])]

\* the characters of the model in ascending order of UTF-16 code unit
\* (10, 32, 42, 43, 46, 47, 65.., 92, 95, 97..)
CodeUnitOrder ==
    <<"\n", " ", "*", "+", ".", "/">> \o UpperLetters \o <<"\\", "_">> \o LowerLetters

\* the rank of a character's code unit, the order Array.prototype.sort compares by
CharCode(c) == CHOOSE i \in DOMAIN CodeUnitOrder : CodeUnitOrder[i] = c

\* regular expressions: \w is [A-Za-z0-9_]
IsWordChar(c) == IsLower(c) \/ IsUpper(c) \/ c = "_"

IsWhiteSpace(c) == c \in {" ", "\n"}

startsWith(s, p) == Len(p) <= Len(s) /\ SubSeq(s, 1, Len(p)) = p
endsWith(s, p) == Len(p) <= Len(s) /\ SubSeq(s, Len(s) - Len(p) + 1, Len(s)) = p

\* s.slice(1) and s.slice(0, -1)
sliceFrom1(s) == SubSeq(s, 2, Len(s))
sliceDropLast(s) == SubSeq(s, 1, Len(s) - 1)

RECURSIVE trimStart(_)
trimStart(s) == IF s # <<>> /\ IsWhiteSpace(Head(s)) THEN trimStart(Tail(s)) ELSE s

RECURSIVE trimEnd(_)
trimEnd(s) ==
    IF s # <<>> /\ IsWhiteSpace(s[Len(s)]) THEN trimEnd(sliceDropLast(s)) ELSE s

\* String.prototype.trim
trim(s) == trimEnd(trimStart(s))

\* all strings over chars of length at most n
StringsUpTo(chars, n) == UNION {[1..k -> chars] : k \in 0..n}

(***************************************************************************)
(* Regular expressions: the RegExp constructor and RegExp.prototype.test,  *)
(* for patterns built from literal characters, identity escapes, `.`, the  *)
(* quantifiers `*` and `+`, and the assertion \b.  The phrases of the      *)
(* model contain none of ( ) [ ] { } | ^ $ ? and no backslash.             *)
(***************************************************************************)
\* the class createSearchRegex escapes: [.*+?^${}()|[\]\\]
EscapedChars == {".", "*", "+", "?", "^", "$", "{", "}", "(", ")", "|", "[", "]", "\\"}

\* a mutant of escapeRegex: the phrase is used as the pattern source unescaped
escapeRegex_none(s) == s

\* pattern.replace(/[.*+?^${}()|[\]\\]/g, '\\$&')
RECURSIVE escapeRegex(_)
escapeRegex(s) ==
    IF s = <<>> THEN <<>>
    ELSE (IF Head(s) \in EscapedChars THEN <<"\\", Head(s)>> ELSE <<Head(s)>>)
         \o escapeRegex(Tail(s))

Atom(kind, ch) == [kind |-> kind, ch |-> ch, quant |-> "1"]

SyntaxError == [ok |-> FALSE, items |-> <<>>]

\* the pattern parser: the terms parsed so far are `items`
RECURSIVE ParsePattern(_, _, _)
ParsePattern(src, i, items) ==
    IF i > Len(src) THEN [ok |-> TRUE, items |-> items]
    ELSE CASE src[i] = "\\" ->
                IF i = Len(src) THEN SyntaxError
                ELSE IF src[i + 1] = "b"
                     THEN ParsePattern(src, i + 2, Append(items, Atom("boundary", "")))
                     ELSE ParsePattern(src, i + 2, Append(items, Atom("char", src[i + 1])))
           [] src[i] \in {"*", "+"} ->
                \* "Nothing to repeat": no atom, an assertion, or a quantifier before it
                IF items = <<>> THEN SyntaxError
                ELSE IF items[Len(items)].kind = "boundary"
                        \/ items[Len(items)].quant # "1"
                     THEN SyntaxError
                     ELSE ParsePattern(src, i + 1,
                                       [items EXCEPT ![Len(items)].quant = src[i]])
           [] src[i] = "." -> ParsePattern(src, i + 1, Append(items, Atom("any", "")))
           [] OTHER -> ParsePattern(src, i + 1, Append(items, Atom("char", src[i])))

\* new RegExp(source, ignoreCase ? 'gi' : 'g'); ok = FALSE when it throws SyntaxError
NewRegExp(source, ignoreCase) ==
    LET parsed == ParsePattern(source, 1, <<>>)
    IN  [ok |-> parsed.ok, items |-> parsed.items, ignoreCase |-> ignoreCase]

\* Canonicalize of the RegExp semantics: with the i flag characters compare by
\* their upper-case form
Canonicalize(c, ignoreCase) == IF ignoreCase THEN toUpperCase(c) ELSE c

AtomMatches(item, c, ignoreCase) ==
    IF item.kind = "any" THEN c # "\n"
    ELSE Canonicalize(item.ch, ignoreCase) = Canonicalize(c, ignoreCase)

\* \b at position p: exactly one of the characters around p is a word character
IsWordBoundary(s, p) ==
    LET before == p > 1 /\ IsWordChar(s[p - 1])
        after == p <= Len(s) /\ IsWordChar(s[p])
    IN  before # after

\* the terms items[k..] match s from position p
RECURSIVE MatchFrom(_, _, _, _, _)
MatchFrom(items, k, s, p, ignoreCase) ==
    IF k > Len(items) THEN TRUE
    ELSE IF items[k].kind = "boundary"
         THEN IsWordBoundary(s, p) /\ MatchFrom(items, k + 1, s, p, ignoreCase)
         ELSE LET least == IF items[k].quant = "*" THEN 0 ELSE 1
                  most == IF items[k].quant = "1" THEN 1 ELSE Len(s) - p + 1
              IN  \E n \in least..most :
                      /\ p + n - 1 <= Len(s)
                      /\ \A q \in p..(p + n - 1) : AtomMatches(items[k], s[q], ignoreCase)
                      /\ MatchFrom(items, k + 1, s, p + n, ignoreCase)

\* regex.test(s) on a freshly built regex (lastIndex = 0)
RegExpTest(regex, s) ==
    \E p \in 1..(Len(s) + 1) : MatchFrom(regex.items, 1, s, p, regex.ignoreCase)

(***************************************************************************)
(* search-recursively.js: the line test                                    *)
(***************************************************************************)
WordBoundary == <<"\\", "b">>

createSearchRegex(pattern, isWholeWord, caseSensitive) ==
    LET wordBoundary == IF isWholeWord THEN WordBoundary ELSE <<>>
    IN  NewRegExp(wordBoundary \o escapeRegex(pattern) \o wordBoundary, ~caseSensitive)

\* the first test of matchesSearchCriteria
includeTest(line, cfg) ==
    RegExpTest(createSearchRegex(cfg.include, cfg.wholeWord, cfg.caseSensitive), line)

matchesSearchCriteria(line, cfg) ==
    IF ~includeTest(line, cfg) THEN FALSE
    ELSE ~\E i \in DOMAIN cfg.exclude :
             RegExpTest(createSearchRegex(cfg.exclude[i], cfg.wholeWord,
                                          cfg.caseSensitive), line)

\* the search configuration after the defaults of lines 26-35 are applied
SearchConfig(include, exclude, wholeWord, caseSensitive) ==
    [include |-> include, exclude |-> exclude,
     wholeWord |-> wholeWord, caseSensitive |-> caseSensitive]

(***************************************************************************)
(* Values of the variables a specification does not use                    *)
(***************************************************************************)
NoFileSystem == name = <<>> /\ fails = {} /\ content = <<>>
NoConfig ==
    directories = <<>> /\ patterns = <<>> /\ excludeDirs = <<>> /\ includeFiles = <<>>
NoWalk == stack = <<>> /\ results = <<>> /\ listed = {} /\ scanned = {} /\ readFiles = {}
NoPipe ==
    /\ pc = "idle" /\ di = 0 /\ pi = 0
    /\ allResults = <<>> /\ scanPass = <<>> /\ groupedResults = <<>>
    /\ report = <<>> /\ fsLog = <<>>

(***************************************************************************)
(* SpecMatch: matchesSearchCriteria applied to one line and one pattern    *)
(***************************************************************************)
MaxLineLen == 2
MaxPhraseLen == 2
MaxExcludeLen == 1

MatchChars == {"a", "A", ".", "+"}
ExcludeChars == {"A", "."}

\* exclude lists: none, one phrase, or two distinct one-character phrases
ExcludeLists ==
    {<<>>}
    \cup {<<p>> : p \in StringsUpTo(ExcludeChars, MaxExcludeLen)}
    \cup {<<(<<cd[1]>>), (<<cd[2]>>)>> :
             cd \in {x \in ExcludeChars \X ExcludeChars : x[1] # x[2]}}

MatchConfigs ==
    {SearchConfig(inc, exc, ww, cs) :
        inc \in StringsUpTo(MatchChars, MaxPhraseLen), exc \in ExcludeLists,
        ww \in BOOLEAN, cs \in BOOLEAN}

MatchInit ==
    /\ call = "matchesSearchCriteria"
    /\ input \in [line : StringsUpTo(MatchChars, MaxLineLen), cfg : MatchConfigs]
    /\ output = [done |-> FALSE, include |-> FALSE, matches |-> FALSE]
    /\ NoFileSystem /\ NoConfig /\ NoWalk /\ NoPipe

ApplyMatch ==
    /\ call = "matchesSearchCriteria"
    /\ ~output.done
    /\ output' = [done |-> TRUE,
                  include |-> includeTest(input.line, input.cfg),
                  matches |-> matchesSearchCriteria(input.line, input.cfg)]
    /\ UNCHANGED <<call, input, fsVars, configVars, walkVars, pipeVars>>

MatchNext == ApplyMatch

SpecMatch == MatchInit /\ [][MatchNext]_vars

MatchDone == call = "matchesSearchCriteria" /\ output.done

\* p occurs in s right after the first i characters
OccursAt(s, p, i, sameCase) ==
    /\ i + Len(p) <= Len(s)
    /\ \A k \in 1..Len(p) :
           IF sameCase THEN s[i + k] = p[k]
           ELSE toLowerCase(s[i + k]) = toLowerCase(p[k])

\* s contains p as a case-insensitive substring
ContainsIgnoringCase(s, p) == \E i \in 0..Len(s) : OccursAt(s, p, i, FALSE)

HasMetaChar(s) == \E i \in DOMAIN s : s[i] \in EscapedChars

\* C1: with wholeWord = false and caseSensitive = false the line test is true
\* exactly when the line contains the include phrase as a case-insensitive
\* substring and contains none of the exclude phrases as a case-insensitive
\* substring, metacharacters in the phrases included.
C1_SubstringSemantics ==
    (MatchDone /\ ~input.cfg.wholeWord /\ ~input.cfg.caseSensitive)
    => (output.matches <=>
            /\ ContainsIgnoringCase(input.line, input.cfg.include)
            /\ \A i \in DOMAIN input.cfg.exclude :
                   ~ContainsIgnoringCase(input.line, input.cfg.exclude[i]))

\* a line accepted in a different letter case on a phrase with a metacharacter,
\* an exclude phrase having been tested
C1_Witness ==
    /\ MatchDone /\ ~input.cfg.wholeWord /\ ~input.cfg.caseSensitive
    /\ output.matches
    /\ HasMetaChar(input.cfg.include)
    /\ input.cfg.include # input.line
    /\ Len(input.cfg.include) = Len(input.line)
    /\ Len(input.cfg.exclude) > 0

\* the line has an occurrence of the phrase with no word character right
\* before it and none right after it
WholeWordOccurrence(s, p, sameCase) ==
    \E i \in 0..Len(s) :
        /\ OccursAt(s, p, i, sameCase)
        /\ (i = 0 \/ ~IsWordChar(s[i]))
        /\ (i + Len(p) = Len(s) \/ ~IsWordChar(s[i + Len(p) + 1]))

\* C2: with wholeWord = true the include test succeeds exactly when the line
\* has an occurrence of the (non-empty) include phrase that is not adjacent to
\* a word character on either side, whatever characters the phrase begins and
\* ends with.
C2_WholeWordInclude ==
    (MatchDone /\ input.cfg.wholeWord /\ input.cfg.include # <<>>)
    => (output.include <=>
            WholeWordOccurrence(input.line, input.cfg.include,
                                input.cfg.caseSensitive))

(***************************************************************************)
(* search-recursively.js: the file-type filter                             *)
(***************************************************************************)
\* the index of the last c in s, 0 when there is none
LastIndexOf(s, c) ==
    IF \E i \in DOMAIN s : s[i] = c
    THEN CHOOSE i \in DOMAIN s : s[i] = c /\ \A j \in (i + 1)..Len(s) : s[j] # c
    ELSE 0

\* path.join(currentPath, item), for normalized paths and a plain entry name
pathJoin(currentPath, item) == currentPath \o <<"/">> \o item

\* path.extname (posix), for a path that does not end with a separator: from
\* the last dot of the last segment, and empty when the segment has no dot,
\* starts with its only dot, or is ".."
extname(path) ==
    LET startPart == LastIndexOf(path, "/") + 1
        base == SubSeq(path, startPart, Len(path))
        startDot == IF LastIndexOf(base, ".") = 0 THEN 0
                    ELSE startPart + LastIndexOf(base, ".") - 1
    IN  IF startDot = 0 \/ startDot = startPart \/ base = <<".", ".">>
        THEN <<>>
        ELSE SubSeq(path, startDot, Len(path))

shouldIncludeFile(fileName, filters) ==
    IF Len(filters) = 0 THEN TRUE
    ELSE LET ext == StrToLowerCase(extname(fileName))
         IN  \E i \in DOMAIN filters :
                 IF startsWith(filters[i], <<"*">>)
                 THEN endsWith(StrToLowerCase(fileName), sliceFrom1(filters[i]))
                 ELSE IF endsWith(filters[i], <<"*">>)
                      THEN startsWith(StrToLowerCase(fileName), sliceDropLast(filters[i]))
                      ELSE ext = StrToLowerCase(filters[i])

(***************************************************************************)
(* SpecFilter: the filter step of searchInFile applied to one entry        *)
(***************************************************************************)
MaxNameLen == 3
MaxFilterLen == 2

NameChars == {"a", "j", "J", "."}
FilterChars == {"a", "j", "J", ".", "*"}

FilterLists == {<<>>} \cup {<<f>> : f \in StringsUpTo(FilterChars, MaxFilterLen)}

FilterInit ==
    /\ call = "shouldIncludeFile"
    /\ input \in [dir : {<<"r">>, <<"a", "/", "r">>},
                  item : StringsUpTo(NameChars, MaxNameLen)
                             \ {<<>>, <<".">>, <<".", ".">>},
                  filters : FilterLists]
    /\ output = [done |-> FALSE, read |-> FALSE]
    /\ NoFileSystem /\ NoConfig /\ NoWalk /\ NoPipe

\* searchInFile(fullPath) up to readFileSync: the file is read unless the
\* filter rejects its path
ApplyFilter ==
    /\ call = "shouldIncludeFile"
    /\ ~output.done
    /\ output' = [done |-> TRUE,
                  read |-> shouldIncludeFile(pathJoin(input.dir, input.item),
                                             input.filters)]
    /\ UNCHANGED <<call, input, fsVars, configVars, walkVars, pipeVars>>

FilterNext == ApplyFilter

SpecFilter == FilterInit /\ [][FilterNext]_vars

FilterDone == call = "shouldIncludeFile" /\ output.done

\* the extension of a file name: from its last dot, when that is not its first
\* character
NameExtension(item) ==
    IF LastIndexOf(item, ".") <= 1 THEN <<>>
    ELSE SubSeq(item, LastIndexOf(item, "."), Len(item))

\* a filter accepts a file name, every comparison ignoring case on both sides
FilterAccepts(filter, item) ==
    IF filter # <<>> /\ Head(filter) = "*"
    THEN endsWith(StrToLowerCase(item), StrToLowerCase(Tail(filter)))
    ELSE IF filter # <<>> /\ filter[Len(filter)] = "*"
         THEN startsWith(StrToLowerCase(item),
                         StrToLowerCase(SubSeq(filter, 1, Len(filter) - 1)))
         ELSE StrToLowerCase(filter) = StrToLowerCase(NameExtension(item))

\* C3: with a non-empty filter list a file is read and scanned exactly when a
\* filter accepts it (suffix after a leading `*`, prefix of the file's name
\* before a trailing `*`, otherwise the extension), ignoring case on the file
\* side and on the filter side; with an empty list every file is scanned.
C3_FilterDecision ==
    FilterDone
    => (output.read <=>
            \/ input.filters = <<>>
            \/ \E i \in DOMAIN input.filters :
                   FilterAccepts(input.filters[i], input.item))

(***************************************************************************)
(* The file system the scanner walks: a directory tree whose entry names,  *)
(* file texts and failing operations are chosen by each specification.     *)
(*     root / { d1 / { d2 / { f3 }, f2 }, f1 }                             *)
(***************************************************************************)
\* readdirSync's answer for each directory, in the order it returns the entries
Children ==
    [root |-> <<"d1", "f1">>, d1 |-> <<"d2", "f2">>, d2 |-> <<"f3">>]

Dirs == DOMAIN Children
Files == {"f1", "f2", "f3"}
Nodes == Dirs \cup Files

Parent(n) == CHOOSE d \in Dirs : \E i \in DOMAIN Children[d] : Children[d][i] = n

\* the directories above n, n excluded
RECURSIVE Ancestors(_)
Ancestors(n) == IF n = "root" THEN {} ELSE {Parent(n)} \cup Ancestors(Parent(n))

\* the path of n, as the walk composes it from the start directory "root"
RECURSIVE PathOf(_)
PathOf(n) == IF n = "root" THEN name[n] ELSE pathJoin(PathOf(Parent(n)), name[n])

\* the operations that can throw: readdirSync on a directory, statSync on an
\* entry, readFileSync on a file
FailurePoints ==
    {<<"readdir", d>> : d \in Dirs}
    \cup {<<"stat", n>> : n \in Nodes \ {"root"}}
    \cup {<<"read", f>> : f \in Files}

(***************************************************************************)
(* search-recursively.js: searchInFile, shouldSkipDirectory and the walk   *)
(***************************************************************************)
\* content.split('\n')
RECURSIVE split(_)
split(text) ==
    IF \E i \in DOMAIN text : text[i] = "\n"
    THEN LET i == CHOOSE k \in DOMAIN text :
                      text[k] = "\n" /\ \A j \in 1..(k - 1) : text[j] # "\n"
         IN  <<SubSeq(text, 1, i - 1)>> \o split(SubSeq(text, i + 1, Len(text)))
    ELSE <<text>>

\* the lines.forEach of searchInFile, from line index i (1-based) on
RECURSIVE matchingLinesFrom(_, _, _)
matchingLinesFrom(lines, i, cfg) ==
    IF i > Len(lines) THEN <<>>
    ELSE (IF matchesSearchCriteria(lines[i], cfg)
          THEN <<[content |-> trim(lines[i]), lineNumber |-> i]>>
          ELSE <<>>)
         \o matchingLinesFrom(lines, i + 1, cfg)

\* the results array after searchInFile(filePath) on file node f
searchInFile(res, filePath, f, cfg) ==
    IF ~shouldIncludeFile(filePath, includeFiles) THEN res
    ELSE IF <<"read", f>> \in fails THEN res
    ELSE LET matchingLines == matchingLinesFrom(split(content[f]), 1, cfg)
         IN  IF Len(matchingLines) > 0
             THEN Append(res, [fileName |-> filePath, lines |-> matchingLines])
             ELSE res

\* a mutant of shouldSkipDirectory: only exact names are excluded
shouldSkipDirectory_exact(dirName) ==
    \E i \in DOMAIN excludeDirs : dirName = excludeDirs[i]

shouldSkipDirectory(dirName) ==
    \E i \in DOMAIN excludeDirs :
        IF startsWith(excludeDirs[i], <<"*">>)
        THEN endsWith(dirName, sliceFrom1(excludeDirs[i]))
        ELSE IF endsWith(excludeDirs[i], <<"*">>)
             THEN startsWith(dirName, sliceDropLast(excludeDirs[i]))
             ELSE dirName = excludeDirs[i]

\* an activation of traverseDirectory(currentPath): items are the entries the
\* for loop has not reached yet, entered is false until readdirSync is called
Frame(node, path) == [node |-> node, path |-> path, items |-> <<>>, entered |-> FALSE]

Top == stack[Len(stack)]
Walking == pc = "walk" /\ stack # <<>>
AtEntry == Walking /\ Top.entered /\ Top.items # <<>>
Entry == Head(Top.items)
fullPath == pathJoin(Top.path, name[Entry])
Pop == SubSeq(stack, 1, Len(stack) - 1)

\* the for loop of traverseDirectory goes on to the next entry
Continue == [stack EXCEPT ![Len(stack)].items = Tail(Top.items)]

\* a mutant of catchEntryError: the error reaches the catch around readdirSync
\* and the loop, which ends the activation
catchEntryError_outer == Pop

\* the catch inside the for loop: the error is dropped (logged when verbose)
\* and the loop goes on
catchEntryError == Continue

\* fs.readdirSync(currentPath); when it throws, the outer catch ends this
\* activation only
ReadDir ==
    /\ Walking /\ ~Top.entered
    /\ listed' = listed \cup {Top.node}
    /\ stack' = IF <<"readdir", Top.node>> \in fails
                THEN Pop
                ELSE [stack EXCEPT ![Len(stack)].items = Children[Top.node],
                                   ![Len(stack)].entered = TRUE]
    /\ UNCHANGED <<pureVars, fsVars, configVars, pipeVars, results, scanned, readFiles>>

\* fs.statSync(fullPath) throws: the inner catch, then the next entry
StatError ==
    /\ AtEntry /\ <<"stat", Entry>> \in fails
    /\ stack' = catchEntryError
    /\ UNCHANGED <<pureVars, fsVars, configVars, pipeVars, results, listed, scanned,
                   readFiles>>

\* a directory that shouldSkipDirectory excludes
SkipDirectory ==
    /\ AtEntry /\ <<"stat", Entry>> \notin fails
    /\ Entry \in Dirs /\ shouldSkipDirectory(name[Entry])
    /\ stack' = Continue
    /\ UNCHANGED <<pureVars, fsVars, configVars, pipeVars, results, listed, scanned,
                   readFiles>>

\* traverseDirectory(fullPath) on a directory that is not excluded
Descend ==
    /\ AtEntry /\ <<"stat", Entry>> \notin fails
    /\ Entry \in Dirs /\ ~shouldSkipDirectory(name[Entry])
    /\ stack' = Append(Continue, Frame(Entry, fullPath))
    /\ UNCHANGED <<pureVars, fsVars, configVars, pipeVars, results, listed, scanned,
                   readFiles>>

\* searchInFile(fullPath) on a regular file
SearchInFile ==
    /\ AtEntry /\ <<"stat", Entry>> \notin fails
    /\ Entry \in Files
    /\ scanned' = scanned \cup {Entry}
    /\ readFiles' = IF shouldIncludeFile(fullPath, includeFiles)
                    THEN readFiles \cup {Entry} ELSE readFiles
    /\ results' = searchInFile(results, fullPath, Entry, patterns[pi])
    /\ stack' = Continue
    /\ UNCHANGED <<pureVars, fsVars, configVars, pipeVars, listed>>

\* the for loop is over: traverseDirectory returns to its caller
Return ==
    /\ Walking /\ Top.entered /\ Top.items = <<>>
    /\ stack' = Pop
    /\ UNCHANGED <<pureVars, fsVars, configVars, pipeVars, results, listed, scanned,
                   readFiles>>

(***************************************************************************)
(* SpecWalk: one call searchRecursively(dirPath, searchPattern, options)   *)
(* on a tree in which some operations fail                                 *)
(***************************************************************************)
MaxFailures == 2

RootNames == {<<"r">>, <<"n">>}
DirNames == {<<"s">>, <<"n">>, <<"m", "c">>}
ExcludeDirChoices == {<<(<<"n">>)>>, <<(<<"*", "c">>)>>, <<(<<"s", "*">>), (<<"n">>)>>}
IncludeFileChoices == {<<>>, <<(<<".", "j">>)>>}

WalkInit ==
    /\ call = "searchRecursively" /\ input = <<>> /\ output = [done |-> FALSE]
    /\ \E rn \in RootNames, n1 \in DirNames, n2 \in DirNames \ {<<"s">>} :
           name = [root |-> rn, d1 |-> n1, d2 |-> n2,
                   f1 |-> <<"a", ".", "j">>, f2 |-> <<"c", ".", "J">>,
                   f3 |-> <<"a", ".", "t">>]
    /\ fails \in {F \in SUBSET FailurePoints : Cardinality(F) <= MaxFailures}
    /\ \E t \in {<<"c">>, <<"c", "\n", " ", "A">>} :
           content = [f1 |-> t, f2 |-> <<"a">>, f3 |-> <<"a", "\n", "a">>]
    /\ directories = <<"root">>
    /\ patterns = <<SearchConfig(<<"a">>, <<>>, FALSE, FALSE)>>
    /\ excludeDirs \in ExcludeDirChoices
    /\ includeFiles \in IncludeFileChoices
    /\ pc = "walk" /\ di = 1 /\ pi = 1
    /\ stack = <<Frame("root", name["root"])>>
    /\ results = <<>> /\ listed = {} /\ scanned = {} /\ readFiles = {}
    /\ allResults = <<>> /\ scanPass = <<>> /\ groupedResults = <<>>
    /\ report = <<>> /\ fsLog = <<>>

\* traverseDirectory(dirPath) has returned: return results
SearchReturns ==
    /\ call = "searchRecursively"
    /\ pc = "walk" /\ stack = <<>>
    /\ pc' = "returned"
    /\ output' = [done |-> TRUE]
    /\ UNCHANGED <<call, input, fsVars, configVars, walkVars, di, pi, allResults,
                   scanPass, groupedResults, report, fsLog>>

WalkNext ==
    \/ ReadDir \/ StatError \/ SkipDirectory \/ Descend \/ SearchInFile \/ Return
    \/ SearchReturns

SpecWalk == WalkInit /\ [][WalkNext]_vars

\* a directory name matches an exclusion selector: it equals the selector, or
\* ends with the rest of a selector that starts with `*`, or starts with the
\* rest of a selector that ends with `*`
NameExcluded(dirName) ==
    \E i \in DOMAIN excludeDirs :
        LET sel == excludeDirs[i]
        IN  \/ dirName = sel
            \/ sel # <<>> /\ Head(sel) = "*" /\ endsWith(dirName, Tail(sel))
            \/ sel # <<>> /\ sel[Len(sel)] = "*"
               /\ startsWith(dirName, SubSeq(sel, 1, Len(sel) - 1))

HasResult(res, f) == \E i \in DOMAIN res : res[i].fileName = PathOf(f)

\* directory d is never descended into: it is not listed, and no file beneath
\* it is handed to the scanner or appears in the results
NeverDescended(d) ==
    /\ d \notin listed
    /\ \A f \in Files :
           d \in Ancestors(f) => (f \notin scanned /\ ~HasResult(results, f))

\* C4 (as claimed): during a run of searchRecursively no directory whose name
\* matches an exclusion selector is descended into.
C4_ExcludedNeverDescended ==
    call = "searchRecursively"
    => \A d \in Dirs : NameExcluded(name[d]) => NeverDescended(d)

\* C4 (amended): the same for every directory the walk meets as an entry,
\* that is every directory but the start directory dirPath itself.
C4_ExcludedEntryNeverDescended ==
    call = "searchRecursively"
    => \A d \in Dirs \ {directories[1]} : NameExcluded(name[d]) => NeverDescended(d)

\* the walk is over, it skipped `mc` under the selector `*c` and scanned the
\* file next to it
C4_Witness ==
    /\ call = "searchRecursively" /\ pc = "returned"
    /\ name["d1"] = <<"m", "c">> /\ excludeDirs = <<(<<"*", "c">>)>>
    /\ "root" \in listed /\ <<"stat", "d1">> \notin fails
    /\ "f1" \in scanned

\* the file has a line that passes the line test
HasMatchingLine(f, cfg) ==
    \E i \in DOMAIN split(content[f]) : matchesSearchCriteria(split(content[f])[i], cfg)

\* the file is readable, and reachable from the start directory through
\* directories that can be stat-ed and listed and are not excluded
Reachable(f) ==
    /\ <<"stat", f>> \notin fails /\ <<"read", f>> \notin fails
    /\ \A d \in Ancestors(f) :
           /\ <<"readdir", d>> \notin fails
           /\ d # "root" => (<<"stat", d>> \notin fails /\ ~NameExcluded(name[d]))

\* C7: whatever operations fail, the result searchRecursively returns holds a
\* FileResult for every readable, reachable file the filter accepts and that
\* has a matching line (every failure is handled by a step of the walk, which
\* goes on with the next entry or returns to the calling activation).
C7_FailuresDoNotAbort ==
    (call = "searchRecursively" /\ pc = "returned")
    => \A f \in Files :
           (/\ Reachable(f)
            /\ shouldIncludeFile(PathOf(f), includeFiles)
            /\ HasMatchingLine(f, patterns[1]))
           => HasResult(results, f)

\* a directory could not be listed and the file after it could not be read,
\* both were tried, and the file after their parent is in the results
C7_Witness ==
    /\ call = "searchRecursively" /\ pc = "returned"
    /\ fails = {<<"readdir", "d2">>, <<"read", "f2">>}
    /\ "d2" \in listed /\ "f2" \in readFiles
    /\ HasResult(results, "f1")

(***************************************************************************)
(* groupResultsByPattern and formatSimpleResults.  A Map is the sequence   *)
(* of its entries in insertion order; a Set is the sequence of its         *)
(* elements in insertion order, without repetition.                        *)
(***************************************************************************)
\* typeof pattern === 'string' ? pattern : pattern.include
searchTermOf(pattern) == pattern.include

\* Map.prototype.set: a present key keeps its place and takes the new value
MapSet(map, key, value) ==
    IF \E i \in DOMAIN map : map[i].key = key
    THEN [i \in DOMAIN map |-> IF map[i].key = key
                               THEN [key |-> key, files |-> value] ELSE map[i]]
    ELSE Append(map, [key |-> key, files |-> value])

\* map.get(key), for a key that is present
MapGet(map, key) == map[CHOOSE i \in DOMAIN map : map[i].key = key].files

\* Set.prototype.add
SetAdd(set, x) == IF x \in Range(set) THEN set ELSE Append(set, x)

\* the first forEach: an empty Set for every pattern's search term
RECURSIVE initialGroups(_, _, _)
initialGroups(pats, k, map) ==
    IF k > Len(pats) THEN map
    ELSE initialGroups(pats, k + 1, MapSet(map, searchTermOf(pats[k]), <<>>))

\* Array.prototype.join
RECURSIVE join(_, _)
join(strs, sep) ==
    IF strs = <<>> THEN <<>>
    ELSE IF Len(strs) = 1 THEN strs[1]
    ELSE strs[1] \o sep \o join(Tail(strs), sep)

\* result.lines.map(line => line.content).join('\n')
matchedText(result) ==
    join([i \in DOMAIN result.lines |-> result.lines[i].content], <<"\n">>)

\* new RegExp(wholeWord ? `\\b${term}\\b` : term, caseSensitive ? 'g' : 'gi')
termRegex(term, pattern) ==
    NewRegExp(IF pattern.wholeWord THEN WordBoundary \o term \o WordBoundary ELSE term,
              ~pattern.caseSensitive)

\* excludeTerms.some(...) from term i on: "yes", "no", or "throw" when a
\* RegExp constructor it reaches throws
RECURSIVE hasExclusion(_, _, _)
hasExclusion(text, pattern, i) ==
    IF i > Len(pattern.exclude) THEN "no"
    ELSE IF ~termRegex(pattern.exclude[i], pattern).ok THEN "throw"
    ELSE IF RegExpTest(termRegex(pattern.exclude[i], pattern), text) THEN "yes"
    ELSE hasExclusion(text, pattern, i + 1)

\* the body of the inner forEach for one result text and one pattern:
\* "add" the file to the pattern's group, "skip" it, or "throw"
groupDecision(text, pattern) ==
    IF ~termRegex(searchTermOf(pattern), pattern).ok THEN "throw"
    ELSE IF ~RegExpTest(termRegex(searchTermOf(pattern), pattern), text) THEN "skip"
    ELSE IF hasExclusion(text, pattern, 1) = "throw" THEN "throw"
    ELSE IF hasExclusion(text, pattern, 1) = "yes" THEN "skip"
    ELSE "add"

\* the nested forEach, from result r and pattern k on
RECURSIVE groupFrom(_, _, _, _, _)
groupFrom(all, pats, r, k, map) ==
    IF r > Len(all) THEN [ok |-> TRUE, map |-> map]
    ELSE IF k > Len(pats) THEN groupFrom(all, pats, r + 1, 1, map)
    ELSE LET decision == groupDecision(matchedText(all[r]), pats[k])
             term == searchTermOf(pats[k])
         IN  IF decision = "throw" THEN [ok |-> FALSE, map |-> <<>>]
             ELSE IF decision = "add"
                  THEN groupFrom(all, pats, r, k + 1,
                                 MapSet(map, term,
                                        SetAdd(MapGet(map, term), all[r].fileName)))
                  ELSE groupFrom(all, pats, r, k + 1, map)

groupResultsByPattern(all, pats) ==
    groupFrom(all, pats, 1, 1, initialGroups(pats, 1, <<>>))

\* a < b in the order of the default sort: by code units, a proper prefix first
RECURSIVE StrLess(_, _)
StrLess(a, b) ==
    IF b = <<>> THEN FALSE
    ELSE IF a = <<>> THEN TRUE
    ELSE IF Head(a) # Head(b) THEN CharCode(Head(a)) < CharCode(Head(b))
    ELSE StrLess(Tail(a), Tail(b))

\* x put in its place in the ascending sequence strs
RECURSIVE Insert(_, _)
Insert(strs, x) ==
    IF strs = <<>> THEN <<x>>
    ELSE IF StrLess(x, Head(strs)) THEN <<x>> \o strs
    ELSE <<Head(strs)>> \o Insert(Tail(strs), x)

\* a mutant of sort: the files stay in insertion order
sort_none(strs) == strs

\* [...files].sort()
RECURSIVE sort(_)
sort(strs) == IF strs = <<>> THEN <<>> ELSE Insert(sort(Tail(strs)), Head(strs))

\* the lines pushed by formatSimpleResults, from Map entry i on
RECURSIVE reportLines(_, _)
reportLines(map, i) ==
    IF i > Len(map) THEN <<>>
    ELSE <<map[i].key>> \o sort(map[i].files) \o <<(<<>>)>> \o reportLines(map, i + 1)

formatSimpleResults(map) == join(reportLines(map, 1), <<"\n">>)

(***************************************************************************)
(* Spec: one run of performSearch(config, timestamp)                       *)
(***************************************************************************)
MaxPatterns == 2

\* the pattern specifications the runs draw their pattern lists from
PatternChoices ==
    {SearchConfig(<<"a">>, <<>>, FALSE, FALSE),
     SearchConfig(<<".">>, <<>>, FALSE, FALSE),
     SearchConfig(<<" ", "a">>, <<>>, FALSE, FALSE),
     SearchConfig(<<"+">>, <<>>, FALSE, FALSE),
     SearchConfig(<<"a">>, <<(<<".">>)>>, TRUE, TRUE),
     SearchConfig(<<>>, <<>>, FALSE, FALSE)}

PatternLists == UNION {[1..n -> PatternChoices] : n \in 1..MaxPatterns}

\* the texts of the files: the line ` a`; the lines `A.` and `a+`; no text
FileTexts == {<<" ", "a">>, <<"A", ".", "\n", "a", "+">>, <<>>}

Init ==
    /\ call = "performSearch" /\ input = <<>>
    /\ output = [done |-> FALSE, error |-> "none"]
    /\ name = [root |-> <<"r">>, d1 |-> <<"s">>, d2 |-> <<"n">>,
               f1 |-> <<"c", ".", "j">>, f2 |-> <<"a", ".", "j">>,
               f3 |-> <<"a", ".", "j">>]
    /\ fails \in {{}, {<<"stat", "d2">>}}
    /\ \E t1 \in FileTexts, t2 \in FileTexts :
           content = [f1 |-> t1, f2 |-> t2, f3 |-> <<"a">>]
    /\ directories = <<"root">>
    /\ patterns \in PatternLists
    /\ excludeDirs = <<(<<"n">>)>>
    /\ includeFiles = <<(<<".", "j">>)>>
    /\ pc = "mkdir" /\ di = 1 /\ pi = 1
    /\ NoWalk
    /\ allResults = <<>> /\ scanPass = <<>> /\ groupedResults = <<>>
    /\ report = <<>> /\ fsLog = <<>>

InPerform == call = "performSearch"

Rejected(error) == pc' = "rejected" /\ output' = [done |-> TRUE, error |-> error]

\* await fs.mkdir(folder, { recursive: true }), the first statement of the
\* try block; its rejection is rethrown to the caller
Mkdir ==
    /\ InPerform /\ pc = "mkdir"
    /\ \E ok \in BOOLEAN :
           IF ok
           THEN fsLog' = Append(fsLog, "mkdir") /\ pc' = "scan" /\ UNCHANGED output
           ELSE Rejected("mkdir") /\ UNCHANGED fsLog
    /\ UNCHANGED <<call, input, fsVars, configVars, walkVars, di, pi, allResults,
                   scanPass, groupedResults, report>>

\* searchRecursively(dir, pattern, ...) is called for the current pair
StartSearch ==
    /\ InPerform /\ pc = "scan"
    /\ di <= Len(directories) /\ pi <= Len(patterns)
    /\ pc' = "walk"
    /\ stack' = <<Frame(directories[di], PathOf(directories[di]))>>
    /\ results' = <<>>
    /\ UNCHANGED <<pureVars, fsVars, configVars, listed, scanned, readFiles, di, pi,
                   allResults, scanPass, groupedResults, report, fsLog>>

\* searchRecursively returns: allResults.push(...results), next pattern
PushResults ==
    /\ InPerform /\ pc = "walk" /\ stack = <<>>
    /\ allResults' = allResults \o results
    /\ scanPass' = scanPass \o [i \in 1..Len(results) |-> pi]
    /\ pi' = pi + 1
    /\ pc' = "scan"
    /\ UNCHANGED <<pureVars, fsVars, configVars, walkVars, di, groupedResults, report,
                   fsLog>>

\* the inner for loop is over: next directory
NextDirectory ==
    /\ InPerform /\ pc = "scan"
    /\ di <= Len(directories) /\ pi > Len(patterns)
    /\ di' = di + 1 /\ pi' = 1
    /\ UNCHANGED <<pureVars, fsVars, configVars, walkVars, pc, allResults, scanPass,
                   groupedResults, report, fsLog>>

\* the loops are over: groupResultsByPattern, whose exception is rethrown,
\* then formatSimpleResults
GroupAndFormat ==
    /\ InPerform /\ pc = "scan" /\ di > Len(directories)
    /\ LET grouped == groupResultsByPattern(allResults, patterns)
       IN  IF grouped.ok
           THEN /\ groupedResults' = grouped.map
                /\ report' = formatSimpleResults(grouped.map)
                /\ pc' = "write"
                /\ UNCHANGED output
           ELSE Rejected("SyntaxError") /\ UNCHANGED <<groupedResults, report>>
    /\ UNCHANGED <<call, input, fsVars, configVars, walkVars, di, pi, allResults,
                   scanPass, fsLog>>

\* await fs.writeFile(filePath, formattedResults, 'utf8'), then return filePath
WriteFile ==
    /\ InPerform /\ pc = "write"
    /\ \E ok \in BOOLEAN :
           IF ok
           THEN /\ fsLog' = Append(fsLog, "writeFile")
                /\ pc' = "done"
                /\ output' = [done |-> TRUE, error |-> "none"]
           ELSE Rejected("writeFile") /\ UNCHANGED fsLog
    /\ UNCHANGED <<call, input, fsVars, configVars, walkVars, di, pi, allResults,
                   scanPass, groupedResults, report>>

Next ==
    \/ Mkdir \/ StartSearch
    \/ ReadDir \/ StatError \/ SkipDirectory \/ Descend \/ SearchInFile \/ Return
    \/ PushResults \/ NextDirectory \/ GroupAndFormat \/ WriteFile

Spec == Init /\ [][Next]_vars

\* groupResultsByPattern has returned its Map
Grouped ==
    /\ InPerform
    /\ \/ pc \in {"write", "done"}
       \/ pc = "rejected" /\ output.error = "writeFile"

\* the files of the group keyed by a search term
GroupOf(term) == Range(MapGet(groupedResults, term))

\* every pattern of the run has a non-empty include phrase, as a PatternSpec
\* is meant to
PhrasesNonEmpty == \A k \in DOMAIN patterns : patterns[k].include # <<>>

\* C5: for every FileResult and every pattern (of non-empty phrase) the
\* aggregator adds the file to the pattern's group exactly when the Matcher's
\* test, with the phrases escaped, accepts the newline-joined text of the
\* matched lines, and it rejects otherwise without failing.
C5_AggregatorAgreesWithMatcher ==
    (InPerform /\ PhrasesNonEmpty)
    => \A r \in DOMAIN allResults : \A k \in DOMAIN patterns :
           groupDecision(matchedText(allResults[r]), patterns[k])
               = IF matchesSearchCriteria(matchedText(allResults[r]), patterns[k])
                 THEN "add" ELSE "skip"

\* the file paths that qualify for pattern k: those of the FileResults the
\* aggregator accepts for it
Qualifying(k) ==
    {allResults[r].fileName :
        r \in {x \in DOMAIN allResults :
                  groupDecision(matchedText(allResults[x]), patterns[k]) = "add"}}

\* the strings of S in strictly ascending order
Ascending(S) ==
    CHOOSE q \in [1..Cardinality(S) -> S] :
        \A i \in 1..(Cardinality(S) - 1) : StrLess(q[i], q[i + 1])

\* one group of the report: the phrase, the paths in order, a blank line
GroupLines(term, paths) == <<term>> \o Ascending(paths) \o <<(<<>>)>>

\* one group per pattern, in the order of the pattern list
RECURSIVE LinesPerPattern(_)
LinesPerPattern(k) ==
    IF k > Len(patterns) THEN <<>>
    ELSE GroupLines(patterns[k].include, Qualifying(k)) \o LinesPerPattern(k + 1)

\* one group per distinct include phrase, at the place of the first pattern
\* that has the phrase, with the paths that qualify for any pattern having it
RECURSIVE LinesPerPhrase(_)
LinesPerPhrase(k) ==
    IF k > Len(patterns) THEN <<>>
    ELSE (IF \E j \in 1..(k - 1) : patterns[j].include = patterns[k].include
          THEN <<>>
          ELSE GroupLines(patterns[k].include,
                          UNION {Qualifying(j) :
                                    j \in {x \in DOMAIN patterns :
                                              patterns[x].include = patterns[k].include}}))
         \o LinesPerPhrase(k + 1)

\* C6 (as claimed): the report has exactly one group per input pattern (of
\* non-empty phrase), in the order of the list, each the include phrase, the
\* pattern's qualifying paths without duplicates in ascending order, and a
\* blank line.
C6_OneGroupPerPattern ==
    (Grouped /\ PhrasesNonEmpty) => split(report) = LinesPerPattern(1)

\* C6 (amended): the report has one group per distinct include phrase, in the
\* order of the phrases' first patterns, each the phrase, the paths
\* qualifying for any pattern with that phrase, without duplicates in
\* ascending order, and a blank line.
C6_OneGroupPerPhrase == Grouped => split(report) = LinesPerPhrase(1)

\* two patterns share the phrase `a`, and its group lists two files that
\* were found in descending order of their paths
C6_Witness ==
    /\ Grouped /\ pc = "done"
    /\ Len(patterns) = 2
    /\ patterns[1].include = <<"a">> /\ patterns[2].include = <<"a">>
    /\ patterns[1] # patterns[2]
    /\ Len(MapGet(groupedResults, <<"a">>)) = 2
    /\ StrLess(MapGet(groupedResults, <<"a">>)[2], MapGet(groupedResults, <<"a">>)[1])

\* C8: the folder creation and the report write both happen only after every
\* traversal and the grouping are complete, so a state in which the file
\* system has been changed is a state after aggregation.
C8_MutationsAfterAggregation == (InPerform /\ fsLog # <<>>) => Grouped

\* C9: a pattern with an empty include phrase matches nothing: no scan pass
\* run for it produces a FileResult, its group is empty, and the run does not
\* fail on it.
C9_EmptyIncludeMatchesNothing ==
    InPerform
    => /\ \A i \in DOMAIN allResults : patterns[scanPass[i]].include # <<>>
       /\ Grouped => \A k \in DOMAIN patterns :
                         patterns[k].include = <<>> => GroupOf(<<>>) = {}

\* C10: after groupResultsByPattern every file for which the scan pass of a
\* pattern produced a FileResult is a member of that pattern's group.
C10_ScanResultsKept ==
    Grouped
    => \A i \in DOMAIN allResults :
           allResults[i].fileName \in GroupOf(patterns[scanPass[i]].include)

====
